---- MODULE Spec2Model ----
(***************************************************************************)
(* Model of aperture_adjust.py: the two camera streams opened by main, the *)
(* read / analyse / annotate / composite / display loop, its cleanup, and  *)
(* the frame geometry computed by extract_center_region, overlay_intensity *)
(* and the height-matching composite step.                                 *)
(*                                                                         *)
(* Frames are modelled by their shape (height, width), the stream they     *)
(* came from and their position in that stream; pixel values are not       *)
(* modelled.  cv2.VideoCapture.read yields 3-channel BGR frames, so        *)
(* calculate_mean_intensity always takes its cv2.cvtColor branch.          *)
(***************************************************************************)
EXTENDS Integers, Sequences, FiniteSets

VARIABLES pc, ref_cap, adj_cap, ref_ret, adj_ret, ref_frame, adj_frame,
          ref_region, adj_region, ref_display, adj_display, combined,
          rendered, polls, key, raised, windows_destroyed, exit_code, pct

vars == <<pc, ref_cap, adj_cap, ref_ret, adj_ret, ref_frame, adj_frame,
          ref_region, adj_region, ref_display, adj_display, combined,
          rendered, polls, key, raised, windows_destroyed, exit_code, pct>>

(* ------------------------------ bounds --------------------------------- *)

\* largest number of loop iterations explored
MaxIter == 2

\* largest frame height / width explored by the geometry specification
MaxDim == 5

(* --------------------------- program constants ------------------------- *)

\* CENTER_REGION_PCT = 0.2, as the fraction numerator / denominator
CENTER_REGION_PCT == <<1, 5>>

\* ord("q")
ORD_Q == 113

\* exit status of a process that has not exited yet
NoExit == -1

(* ------------------------------ helpers -------------------------------- *)

Min(a, b) == IF a <= b THEN a ELSE b

Max(a, b) == IF a >= b THEN a ELSE b

\* int(x * p) for a non-negative integer x and a fraction p = <<num, den>>
IntMul(x, p) == (x * p[1]) \div p[2]

\* length of the slice [lo : hi] of an axis of length len (indices >= 0)
SliceLen(lo, hi, len) == Max(Min(hi, len) - Min(lo, len), 0)

NoFrame == [h |-> 0, w |-> 0, src |-> "none", n |-> 0]

NoRegion == [y |-> 0, x |-> 0, h |-> 0, w |-> 0]

NoRect == [pt1 |-> <<0, 0>>, pt2 |-> <<0, 0>>]

NoDisplay == [h |-> 0, w |-> 0, src |-> "none", n |-> 0, rect |-> NoRect]

NoComposite == [h |-> 0, parts |-> <<>>]

NewCapture == [opens |-> 0, isOpened |-> FALSE, reads |-> 0, releases |-> 0]

(* ------------------------- frame geometry ------------------------------ *)

\* extract_center_region with the offsets not halved
extract_center_region_uncentred(frame, p) ==
    LET h == frame.h
        w == frame.w
        region_h == IntMul(h, p)
        region_w == IntMul(w, p)
        y_start == h - region_h
        x_start == w - region_w
    IN  [y |-> Min(y_start, h), x |-> Min(x_start, w),
         h |-> SliceLen(y_start, y_start + region_h, h),
         w |-> SliceLen(x_start, x_start + region_w, w)]

\* extract_center_region(frame, pct): offset and shape of the returned slice
extract_center_region(frame, p) ==
    LET h == frame.h
        w == frame.w
        region_h == IntMul(h, p)
        region_w == IntMul(w, p)
        y_start == (h - region_h) \div 2
        x_start == (w - region_w) \div 2
    IN  [y |-> Min(y_start, h), x |-> Min(x_start, w),
         h |-> SliceLen(y_start, y_start + region_h, h),
         w |-> SliceLen(x_start, x_start + region_w, w)]

\* calculate_mean_intensity(region): cv2.cvtColor rejects an empty array
calculate_mean_intensity_raises(region) == region.h = 0 \/ region.w = 0

\* overlay_intensity with the rectangle corners given as (y, x)
overlay_intensity_swapped(frame) ==
    LET h == frame.h
        w == frame.w
        region_h == IntMul(h, CENTER_REGION_PCT)
        region_w == IntMul(w, CENTER_REGION_PCT)
        y_start == (h - region_h) \div 2
        x_start == (w - region_w) \div 2
    IN  [h |-> h, w |-> w, src |-> frame.src, n |-> frame.n,
         rect |-> [pt1 |-> <<y_start, x_start>>,
                   pt2 |-> <<y_start + region_h, x_start + region_w>>]]

\* overlay_intensity(frame, intensity, label): the annotated copy, with the
\* two corners handed to cv2.rectangle
overlay_intensity(frame) ==
    LET h == frame.h
        w == frame.w
        region_h == IntMul(h, CENTER_REGION_PCT)
        region_w == IntMul(w, CENTER_REGION_PCT)
        y_start == (h - region_h) \div 2
        x_start == (w - region_w) \div 2
    IN  [h |-> h, w |-> w, src |-> frame.src, n |-> frame.n,
         rect |-> [pt1 |-> <<x_start, y_start>>,
                   pt2 |-> <<x_start + region_w, y_start + region_h>>]]

\* width argument of cv2.resize: int(shape[1] * target_h / shape[0])
resize_width(d, target_h) == (d.w * target_h) \div d.h

\* the resize calls raise on a zero height (division) and on an empty
\* source or destination size (cv2.resize)
resize_raises(a, b) ==
    \/ a.h = 0 \/ b.h = 0
    \/ resize_width(a, Min(a.h, b.h)) = 0
    \/ resize_width(b, Min(a.h, b.h)) = 0

Part(d, w) == [src |-> d.src, n |-> d.n, w |-> w]

\* height matching and np.hstack of the two annotated frames
combine(a, b) ==
    IF a.h # b.h
    THEN LET target_h == Min(a.h, b.h)
         IN  [h |-> target_h,
              parts |-> <<Part(a, resize_width(a, target_h)),
                          Part(b, resize_width(b, target_h))>>]
    ELSE [h |-> a.h, parts |-> <<Part(a, a.w), Part(b, b.w)>>]

combine_raises(a, b) == a.h # b.h /\ resize_raises(a, b)

CompositeWidth(c) == IF c.parts = <<>> THEN 0 ELSE c.parts[1].w + c.parts[2].w

(* ------------------------------ inputs --------------------------------- *)

\* shapes (height, width) a stream may deliver: equal heights, differing
\* heights, a frame too small for a center region, a tall narrow frame
FrameShapes == {<<5, 5>>, <<10, 10>>, <<10, 15>>, <<4, 10>>, <<26, 5>>}

\* results of cv2.waitKey(1): no key, "q", "a", "q" with a high modifier bit
Keys == {-1, 113, 97, 369}

(* ------------------------------- main ---------------------------------- *)

Init ==
    /\ pc = "open_ref"
    /\ ref_cap = NewCapture
    /\ adj_cap = NewCapture
    /\ ref_ret = FALSE
    /\ adj_ret = FALSE
    /\ ref_frame = NoFrame
    /\ adj_frame = NoFrame
    /\ ref_region = NoRegion
    /\ adj_region = NoRegion
    /\ ref_display = NoDisplay
    /\ adj_display = NoDisplay
    /\ combined = NoComposite
    /\ rendered = 0
    /\ polls = 0
    /\ key = -1
    /\ raised = FALSE
    /\ windows_destroyed = FALSE
    /\ exit_code = NoExit
    /\ pct = CENTER_REGION_PCT

\* ref_cap = cv2.VideoCapture(ref_url)
OpenRef ==
    /\ pc = "open_ref"
    /\ \E ok \in BOOLEAN :
          ref_cap' = [ref_cap EXCEPT !.opens = @ + 1, !.isOpened = ok]
    /\ pc' = "open_adj"
    /\ UNCHANGED <<adj_cap, ref_ret, adj_ret, ref_frame, adj_frame,
                   ref_region, adj_region, ref_display, adj_display, combined,
                   rendered, polls, key, raised, windows_destroyed, exit_code,
                   pct>>

\* adj_cap = cv2.VideoCapture(adj_url)
OpenAdj ==
    /\ pc = "open_adj"
    /\ \E ok \in BOOLEAN :
          adj_cap' = [adj_cap EXCEPT !.opens = @ + 1, !.isOpened = ok]
    /\ pc' = "check_ref"
    /\ UNCHANGED <<ref_cap, ref_ret, adj_ret, ref_frame, adj_frame,
                   ref_region, adj_region, ref_display, adj_display, combined,
                   rendered, polls, key, raised, windows_destroyed, exit_code,
                   pct>>

\* if not ref_cap.isOpened(): sys.exit(1)
CheckRef ==
    /\ pc = "check_ref"
    /\ IF ~ref_cap.isOpened
       THEN pc' = "done" /\ exit_code' = 1
       ELSE pc' = "check_adj" /\ UNCHANGED exit_code
    /\ UNCHANGED <<ref_cap, adj_cap, ref_ret, adj_ret, ref_frame, adj_frame,
                   ref_region, adj_region, ref_display, adj_display, combined,
                   rendered, polls, key, raised, windows_destroyed, pct>>

\* CheckAdj without the isOpened test
CheckAdj_unchecked ==
    /\ pc = "check_adj"
    /\ pc' = "read_ref"
    /\ UNCHANGED <<ref_cap, exit_code>>
    /\ UNCHANGED <<adj_cap, ref_ret, adj_ret, ref_frame, adj_frame,
                   ref_region, adj_region, ref_display, adj_display, combined,
                   rendered, polls, key, raised, windows_destroyed, pct>>

\* if not adj_cap.isOpened(): ref_cap.release(); sys.exit(1)
CheckAdj ==
    /\ pc = "check_adj"
    /\ IF ~adj_cap.isOpened
       THEN /\ ref_cap' = [ref_cap EXCEPT !.releases = @ + 1]
            /\ pc' = "done"
            /\ exit_code' = 1
       ELSE /\ pc' = "read_ref"
            /\ UNCHANGED <<ref_cap, exit_code>>
    /\ UNCHANGED <<adj_cap, ref_ret, adj_ret, ref_frame, adj_frame,
                   ref_region, adj_region, ref_display, adj_display, combined,
                   rendered, polls, key, raised, windows_destroyed, pct>>

\* ref_ret, ref_frame = ref_cap.read()
ReadRef ==
    /\ pc = "read_ref"
    /\ ref_cap.reads < MaxIter
    /\ ref_cap' = [ref_cap EXCEPT !.reads = @ + 1]
    /\ \E ok \in BOOLEAN : \E s \in FrameShapes :
          /\ ref_ret' = ok
          /\ ref_frame' = IF ok
                          THEN [h |-> s[1], w |-> s[2], src |-> "ref",
                                n |-> ref_cap.reads + 1]
                          ELSE NoFrame
    /\ pc' = "read_adj"
    /\ UNCHANGED <<adj_cap, adj_ret, adj_frame, ref_region, adj_region,
                   ref_display, adj_display, combined, rendered, polls, key,
                   raised, windows_destroyed, exit_code, pct>>

\* ReadAdj reading the reference capture a second time
ReadAdj_from_ref ==
    /\ pc = "read_adj"
    /\ ref_cap' = [ref_cap EXCEPT !.reads = @ + 1]
    /\ \E ok \in BOOLEAN : \E s \in FrameShapes :
          /\ adj_ret' = ok
          /\ adj_frame' = IF ok
                          THEN [h |-> s[1], w |-> s[2], src |-> "ref",
                                n |-> ref_cap.reads + 1]
                          ELSE NoFrame
    /\ pc' = "check_reads"
    /\ UNCHANGED <<adj_cap, ref_ret, ref_frame, ref_region, adj_region,
                   ref_display, adj_display, combined, rendered, polls, key,
                   raised, windows_destroyed, exit_code, pct>>

\* adj_ret, adj_frame = adj_cap.read()
ReadAdj ==
    /\ pc = "read_adj"
    /\ adj_cap' = [adj_cap EXCEPT !.reads = @ + 1]
    /\ \E ok \in BOOLEAN : \E s \in FrameShapes :
          /\ adj_ret' = ok
          /\ adj_frame' = IF ok
                          THEN [h |-> s[1], w |-> s[2], src |-> "adj",
                                n |-> adj_cap.reads + 1]
                          ELSE NoFrame
    /\ pc' = "check_reads"
    /\ UNCHANGED <<ref_cap, ref_ret, ref_frame, ref_region, adj_region,
                   ref_display, adj_display, combined, rendered, polls, key,
                   raised, windows_destroyed, exit_code, pct>>

\* CheckReads breaking only when both reads failed
CheckReads_both ==
    /\ pc = "check_reads"
    /\ pc' = IF ~ref_ret /\ ~adj_ret THEN "finally" ELSE "analyse"
    /\ UNCHANGED <<ref_cap, adj_cap, ref_ret, adj_ret, ref_frame, adj_frame,
                   ref_region, adj_region, ref_display, adj_display, combined,
                   rendered, polls, key, raised, windows_destroyed, exit_code,
                   pct>>

\* if not ref_ret or not adj_ret: break
CheckReads ==
    /\ pc = "check_reads"
    /\ pc' = IF ~ref_ret \/ ~adj_ret THEN "finally" ELSE "analyse"
    /\ UNCHANGED <<ref_cap, adj_cap, ref_ret, adj_ret, ref_frame, adj_frame,
                   ref_region, adj_region, ref_display, adj_display, combined,
                   rendered, polls, key, raised, windows_destroyed, exit_code,
                   pct>>

\* extract_center_region and calculate_mean_intensity of both frames; the
\* reference region is converted first, and an exception leaves the try
\* block for the finally clause
Analyse ==
    /\ pc = "analyse"
    /\ ref_region' = extract_center_region(ref_frame, CENTER_REGION_PCT)
    /\ adj_region' = extract_center_region(adj_frame, CENTER_REGION_PCT)
    /\ IF \/ calculate_mean_intensity_raises(ref_region')
          \/ calculate_mean_intensity_raises(adj_region')
       THEN raised' = TRUE /\ pc' = "finally"
       ELSE UNCHANGED raised /\ pc' = "annotate"
    /\ UNCHANGED <<ref_cap, adj_cap, ref_ret, adj_ret, ref_frame, adj_frame,
                   ref_display, adj_display, combined, rendered, polls, key,
                   windows_destroyed, exit_code, pct>>

\* ref_display / adj_display = overlay_intensity(...)
Annotate ==
    /\ pc = "annotate"
    /\ ref_display' = overlay_intensity(ref_frame)
    /\ adj_display' = overlay_intensity(adj_frame)
    /\ pc' = "composite"
    /\ UNCHANGED <<ref_cap, adj_cap, ref_ret, adj_ret, ref_frame, adj_frame,
                   ref_region, adj_region, combined, rendered, polls, key,
                   raised, windows_destroyed, exit_code, pct>>

\* resize to a common height, np.hstack, cv2.imshow
Composite ==
    /\ pc = "composite"
    /\ IF combine_raises(ref_display, adj_display)
       THEN /\ raised' = TRUE
            /\ pc' = "finally"
            /\ UNCHANGED <<combined, rendered>>
       ELSE /\ combined' = combine(ref_display, adj_display)
            /\ rendered' = rendered + 1
            /\ pc' = "poll"
            /\ UNCHANGED raised
    /\ UNCHANGED <<ref_cap, adj_cap, ref_ret, adj_ret, ref_frame, adj_frame,
                   ref_region, adj_region, ref_display, adj_display, polls,
                   key, windows_destroyed, exit_code, pct>>

\* Poll comparing the key code without the 0xFF mask
Poll_unmasked ==
    /\ pc = "poll"
    /\ \E k \in Keys :
          /\ key' = k
          /\ pc' = IF k = ORD_Q THEN "finally" ELSE "read_ref"
    /\ polls' = polls + 1
    /\ UNCHANGED <<ref_cap, adj_cap, ref_ret, adj_ret, ref_frame, adj_frame,
                   ref_region, adj_region, ref_display, adj_display, combined,
                   rendered, raised, windows_destroyed, exit_code, pct>>

\* Poll breaking on any key press
Poll_any_key ==
    /\ pc = "poll"
    /\ \E k \in Keys :
          /\ key' = k
          /\ pc' = IF k # -1 THEN "finally" ELSE "read_ref"
    /\ polls' = polls + 1
    /\ UNCHANGED <<ref_cap, adj_cap, ref_ret, adj_ret, ref_frame, adj_frame,
                   ref_region, adj_region, ref_display, adj_display, combined,
                   rendered, raised, windows_destroyed, exit_code, pct>>

\* if cv2.waitKey(1) & 0xFF == ord("q"): break
Poll ==
    /\ pc = "poll"
    /\ \E k \in Keys :
          /\ key' = k
          /\ pc' = IF k % 256 = ORD_Q THEN "finally" ELSE "read_ref"
    /\ polls' = polls + 1
    /\ UNCHANGED <<ref_cap, adj_cap, ref_ret, adj_ret, ref_frame, adj_frame,
                   ref_region, adj_region, ref_display, adj_display, combined,
                   rendered, raised, windows_destroyed, exit_code, pct>>

\* finally: release both captures, destroy the windows; the process then
\* ends with status 0, or 1 when an exception is propagating
Finally ==
    /\ pc = "finally"
    /\ ref_cap' = [ref_cap EXCEPT !.releases = @ + 1]
    /\ adj_cap' = [adj_cap EXCEPT !.releases = @ + 1]
    /\ windows_destroyed' = TRUE
    /\ exit_code' = IF raised THEN 1 ELSE 0
    /\ pc' = "done"
    /\ UNCHANGED <<ref_ret, adj_ret, ref_frame, adj_frame, ref_region,
                   adj_region, ref_display, adj_display, combined, rendered,
                   polls, key, raised, pct>>

Next ==
    \/ OpenRef
    \/ OpenAdj
    \/ CheckRef
    \/ CheckAdj
    \/ ReadRef
    \/ ReadAdj
    \/ CheckReads
    \/ Analyse
    \/ Annotate
    \/ Composite
    \/ Poll
    \/ Finally

Spec == Init /\ [][Next]_vars

(* ----------------- geometry of one pair of frames ---------------------- *)

\* fractions in (0, 1] handed to extract_center_region
Fractions == {<<1, 5>>, <<1, 4>>, <<1, 2>>, <<1, 1>>}

\* every pair of frame shapes up to MaxDim, every fraction
InitGeom ==
    /\ pc = "g_extract"
    /\ \E hA \in 0..MaxDim, wA \in 0..MaxDim :
          ref_frame = [h |-> hA, w |-> wA, src |-> "ref", n |-> 1]
    /\ \E hB \in 0..MaxDim, wB \in 0..MaxDim :
          adj_frame = [h |-> hB, w |-> wB, src |-> "adj", n |-> 1]
    /\ pct \in Fractions
    /\ ref_cap = NewCapture
    /\ adj_cap = NewCapture
    /\ ref_ret = TRUE
    /\ adj_ret = TRUE
    /\ ref_region = NoRegion
    /\ adj_region = NoRegion
    /\ ref_display = NoDisplay
    /\ adj_display = NoDisplay
    /\ combined = NoComposite
    /\ rendered = 0
    /\ polls = 0
    /\ key = -1
    /\ raised = FALSE
    /\ windows_destroyed = FALSE
    /\ exit_code = NoExit

\* extract_center_region(frame, pct) on both frames
GeomExtract ==
    /\ pc = "g_extract"
    /\ ref_region' = extract_center_region(ref_frame, pct)
    /\ adj_region' = extract_center_region(adj_frame, pct)
    /\ pc' = "g_overlay"
    /\ UNCHANGED <<ref_cap, adj_cap, ref_ret, adj_ret, ref_frame, adj_frame,
                   ref_display, adj_display, combined, rendered, polls, key,
                   raised, windows_destroyed, exit_code, pct>>

\* overlay_intensity on both frames
GeomOverlay ==
    /\ pc = "g_overlay"
    /\ ref_display' = overlay_intensity(ref_frame)
    /\ adj_display' = overlay_intensity(adj_frame)
    /\ pc' = "g_combine"
    /\ UNCHANGED <<ref_cap, adj_cap, ref_ret, adj_ret, ref_frame, adj_frame,
                   ref_region, adj_region, combined, rendered, polls, key,
                   raised, windows_destroyed, exit_code, pct>>

\* height matching and np.hstack of the two annotated frames
GeomCombine ==
    /\ pc = "g_combine"
    /\ IF combine_raises(ref_display, adj_display)
       THEN raised' = TRUE /\ UNCHANGED combined
       ELSE combined' = combine(ref_display, adj_display) /\ UNCHANGED raised
    /\ pc' = "g_done"
    /\ UNCHANGED <<ref_cap, adj_cap, ref_ret, adj_ret, ref_frame, adj_frame,
                   ref_region, adj_region, ref_display, adj_display, rendered,
                   polls, key, windows_destroyed, exit_code, pct>>

NextGeom ==
    \/ GeomExtract
    \/ GeomOverlay
    \/ GeomCombine

SpecGeom == InitGeom /\ [][NextGeom]_vars

(* ------------------------- derived notions ----------------------------- *)

\* an open was attempted on the capture and failed
OpenFailedOn(cap) == cap.opens > 0 /\ ~cap.isOpened

OpenFailed == OpenFailedOn(ref_cap) \/ OpenFailedOn(adj_cap)

\* the most recent read of the source failed
RefReadFailed == ref_cap.reads > 0 /\ ~ref_ret

AdjReadFailed == adj_cap.reads > 0 /\ ~adj_ret

\* the last poll returned the quit key
QuitObserved == polls > 0 /\ key % 256 = ORD_Q

InitializingPcs == {"open_ref", "open_adj", "check_ref", "check_adj"}

StreamingPcs == {"read_ref", "read_adj", "check_reads", "analyse",
                 "annotate", "composite", "poll"}

\* 0 = Initializing, 1 = Streaming, 2 = Terminated
PhaseOf(p) == IF p \in InitializingPcs THEN 0
              ELSE IF p \in StreamingPcs THEN 1 ELSE 2

\* no open, read, render or poll happens in the step
NoSourceOrDisplayOp ==
    /\ ref_cap'.opens = ref_cap.opens /\ adj_cap'.opens = adj_cap.opens
    /\ ref_cap'.reads = ref_cap.reads /\ adj_cap'.reads = adj_cap.reads
    /\ rendered' = rendered /\ polls' = polls

\* k = floor(x * p) for the fraction p = <<num, den>>
IsFloorOf(k, x, p) == k * p[2] <= x * p[1] /\ x * p[1] < (k + 1) * p[2]

\* o = (len - part) // 2
IsCentredOffset(o, len, part) == 2 * o <= len - part /\ len - part < 2 * o + 2

(* ------------------------------ claims --------------------------------- *)

\* C1: when the process has ended, every capture that opened successfully
\* has been released exactly once, and no capture is ever released twice.
C1_ReleasedExactlyOnce ==
    /\ ref_cap.releases <= 1
    /\ adj_cap.releases <= 1
    /\ pc = "done" =>
          /\ ref_cap.isOpened => ref_cap.releases = 1
          /\ adj_cap.isOpened => adj_cap.releases = 1

\* C2: once an open has failed, no frame is ever read from either source, no
\* composite is rendered, the loop is never entered, and the process ends
\* with exit code 1.
C2_OpenFailureExits ==
    OpenFailed =>
       /\ ref_cap.reads = 0 /\ adj_cap.reads = 0
       /\ rendered = 0 /\ polls = 0
       /\ PhaseOf(pc) # 1
       /\ pc \notin {"finally"}
       /\ pc = "done" => exit_code = 1

C2_Witness ==
    /\ pc = "done" /\ exit_code = 1
    /\ ref_cap.isOpened /\ OpenFailedOn(adj_cap)

\* C3: when the quit key is observed at the N-th poll, N composites have been
\* rendered and N frames read from each source, the loop is over, and the
\* process ends with exit code 0, both captures released once and the
\* windows destroyed.
C3_QuitAfterN ==
    QuitObserved =>
       /\ rendered = polls
       /\ ref_cap.reads = polls /\ adj_cap.reads = polls
       /\ pc \in {"finally", "done"}
       /\ pc = "done" =>
             /\ exit_code = 0
             /\ ref_cap.releases = 1 /\ adj_cap.releases = 1
             /\ windows_destroyed

C3_Witness ==
    /\ QuitObserved /\ pc = "done" /\ polls = 2 /\ rendered = 2
    /\ exit_code = 0

\* C4 (state part): after a failed read the failing iteration renders nothing
\* and polls nothing, the loop stops, and the process ends with exit code 0
\* after releasing both captures and destroying the windows.
C4_ReadFailureState ==
    (RefReadFailed \/ AdjReadFailed) =>
       /\ rendered = ref_cap.reads - 1
       /\ polls = ref_cap.reads - 1
       /\ pc \in {"read_adj", "check_reads", "finally", "done"}
       /\ ~raised
       /\ pc = "done" =>
             /\ exit_code = 0
             /\ ref_cap.releases = 1 /\ adj_cap.releases = 1
             /\ windows_destroyed

\* C4 (step part): a source whose last read failed is not read again.
C4_NoRetryStep ==
    /\ RefReadFailed => ref_cap'.reads = ref_cap.reads
    /\ AdjReadFailed => adj_cap'.reads = adj_cap.reads

\* C4: a failed read ends the loop without a render or a poll, cleanup runs,
\* the exit code is 0, and the failed source is never read again.
C4_ReadFailureStops == [](C4_ReadFailureState) /\ [][C4_NoRetryStep]_vars

C4_Witness ==
    /\ RefReadFailed /\ adj_ret /\ adj_cap.reads = ref_cap.reads
    /\ ref_cap.reads = 2
    /\ pc = "done" /\ exit_code = 0

\* C5: once an open has failed, no further open and no read is performed on
\* any source.
C5_NoOpAfterFailedOpen ==
    [][OpenFailed =>
          /\ ref_cap'.opens = ref_cap.opens /\ adj_cap'.opens = adj_cap.opens
          /\ ref_cap'.reads = ref_cap.reads /\ adj_cap'.reads = adj_cap.reads]_vars

\* the region of frame f returned for fraction p is as C6 states
RegionAsSpecified(r, f, p) ==
    /\ IsFloorOf(r.h, f.h, p)
    /\ IsFloorOf(r.w, f.w, p)
    /\ IsCentredOffset(r.y, f.h, r.h)
    /\ IsCentredOffset(r.x, f.w, r.w)
    /\ 0 <= r.y /\ r.y + r.h <= f.h
    /\ 0 <= r.x /\ r.x + r.w <= f.w

\* C6: the region extracted from an H x W frame for fraction p has height
\* floor(H*p), width floor(W*p), top-left offset ((H-rh)//2, (W-rw)//2), and
\* lies inside the frame.
C6_RegionGeometry ==
    pc \in {"g_overlay", "g_combine", "g_done"} =>
       /\ RegionAsSpecified(ref_region, ref_frame, pct)
       /\ RegionAsSpecified(adj_region, adj_frame, pct)

C6_Witness ==
    /\ pc = "g_overlay" /\ pct = CENTER_REGION_PCT
    /\ ref_frame.h = 5 /\ ref_frame.w = 3
    /\ ref_region = [y |-> 2, x |-> 1, h |-> 1, w |-> 0]

\* C7: for two annotated frames with positive dimensions the composite step
\* yields a frame of height min(hA, hB) whose width is the sum of the widths
\* floor(w * targetH / h) of the two frames; with equal heights the width is
\* wA + wB, the reference frame on the left and the adjustment on the right.
C7_CompositeGeometry ==
    (/\ pc = "g_done"
     /\ ref_display.h > 0 /\ ref_display.w > 0
     /\ adj_display.h > 0 /\ adj_display.w > 0) =>
       LET th == Min(ref_display.h, adj_display.h)
       IN  /\ ~raised
           /\ Len(combined.parts) = 2
           /\ combined.h = th
           /\ \E ka \in 0..(MaxDim + 1), kb \in 0..(MaxDim + 1) :
                 /\ ka * ref_display.h <= ref_display.w * th
                 /\ ref_display.w * th < (ka + 1) * ref_display.h
                 /\ kb * adj_display.h <= adj_display.w * th
                 /\ adj_display.w * th < (kb + 1) * adj_display.h
                 /\ CompositeWidth(combined) = ka + kb
           /\ combined.parts[1].src = "ref" /\ combined.parts[2].src = "adj"
           /\ ref_display.h = adj_display.h =>
                 /\ combined.parts[1].w = ref_display.w
                 /\ combined.parts[2].w = adj_display.w

\* the rectangle of annotated frame d coincides with region r
RectMatchesRegion(d, r) ==
    /\ d.rect.pt1 = <<r.x, r.y>>
    /\ d.rect.pt2[1] - d.rect.pt1[1] = r.w
    /\ d.rect.pt2[2] - d.rect.pt1[2] = r.h

\* C8: for a frame analysed with the configured fraction, the rectangle drawn
\* by overlay_intensity has the top-left corner, height and width of the
\* region extract_center_region returned for that frame.
C8_RectMatchesRegion ==
    (pc \in {"g_combine", "g_done"} /\ pct = CENTER_REGION_PCT) =>
       /\ RectMatchesRegion(ref_display, ref_region)
       /\ RectMatchesRegion(adj_display, adj_region)

C8_Witness ==
    /\ pc = "g_combine" /\ pct = CENTER_REGION_PCT
    /\ ref_frame.h = 5 /\ ref_frame.w = 5
    /\ ref_region = [y |-> 2, x |-> 2, h |-> 1, w |-> 1]
    /\ ref_display.rect = [pt1 |-> <<2, 2>>, pt2 |-> <<3, 3>>]

\* C9: the reference source is read first and each source once per
\* iteration (reads of reference minus reads of adjustment is 0 or 1), and a
\* rendered composite is made of the frames read in the iteration that
\* rendered it.
C9_ReadOrder ==
    /\ ref_cap.reads - adj_cap.reads \in {0, 1}
    /\ pc = "read_adj" <=> ref_cap.reads - adj_cap.reads = 1
    /\ rendered > 0 =>
          /\ combined.parts[1].src = "ref" /\ combined.parts[1].n = rendered
          /\ combined.parts[2].src = "adj" /\ combined.parts[2].n = rendered
    /\ pc = "poll" => rendered = ref_cap.reads /\ rendered = adj_cap.reads

C9_Witness ==
    /\ pc = "poll" /\ rendered = 2
    /\ combined.parts[1].n = 2 /\ combined.parts[2].n = 2

\* the phase never moves backwards and nothing happens once Terminated
C10_ForwardStep ==
    /\ PhaseOf(pc') >= PhaseOf(pc)
    /\ PhaseOf(pc) = 2 => NoSourceOrDisplayOp

\* the step leaves Streaming for Terminated
LeavesStreaming == PhaseOf(pc) = 1 /\ PhaseOf(pc') = 2

\* the step observes the quit key or acts on a failed read
QuitOrReadFailure ==
    \/ pc = "poll" /\ polls' = polls + 1 /\ key' % 256 = ORD_Q
    \/ pc = "check_reads" /\ (~ref_ret \/ ~adj_ret)

\* C10 as stated: the phase only moves forward, Streaming is left only on a
\* quit key or a failed read, and nothing is opened, read, rendered or polled
\* once Terminated.
C10_OnlyQuitOrReadFailure ==
    [][C10_ForwardStep /\ (LeavesStreaming => QuitOrReadFailure)]_vars

\* C10 amended: Streaming is left only on a quit key, a failed read, or an
\* exception raised while the frames are analysed or composited.
C10_QuitReadFailureOrException ==
    [][/\ C10_ForwardStep
       /\ LeavesStreaming => (QuitOrReadFailure \/ (~raised /\ raised'))]_vars

C10_Witness ==
    /\ pc = "done" /\ raised /\ exit_code = 1
    /\ ref_cap.releases = 1 /\ adj_cap.releases = 1

====
